---------------------------- MODULE Spec2Model ----------------------------
(***************************************************************************)
(* A model of Events.hpp: the EventHandle identity, the type-erased Call   *)
(* wrapper and the Event dispatch registry (Hook, Unhook, UnhookClass,     *)
(* Invoke, Clear, BindTo, operator=).                                      *)
(*                                                                         *)
(* Two Event objects of one instantiation Event<Signature, KeepOrder> are  *)
(* modelled, "A" a member of the object at address X and "B" a member of   *)
(* the object at address Y.  Addresses are natural numbers, 0 is nullptr.  *)
(* assert() is modelled as compiled in: a failed assertion terminates the  *)
(* process, which is recorded in `aborted` and ends the behaviour.         *)
(*                                                                         *)
(* Spec is the registry used by programs whose callbacks leave it alone:   *)
(* an Invoke is one step.  SpecReentrant is a program whose callbacks call *)
(* Hook, Unhook, UnhookClass and Clear on the event that invokes them: an  *)
(* Invoke is one step for every call it makes.  SpecHandles is a program   *)
(* that compares two handles.                                              *)
(***************************************************************************)
EXTENDS Integers, Sequences, FiniteSets

VARIABLES
    program,        \* which client program runs: it fixes the Hook call sites
    Ordered,        \* the template argument KeepOrder of both events
    boundTo,        \* boundTo[e]: the object event e is bound to, or NULL
    callList_,      \* callList_[e]: the Calls of event e, all buckets together
    priority_,      \* priority_[e]: the counter used when KeepOrder is true
    initialized_,   \* initialized_[e]
    aborted,        \* the assertion that terminated the process, "" if none
    last,           \* the most recent operation and its argument or result
    invoked,        \* the callbacks the most recent operation called, in order
    pass            \* the loops of an Invoke whose callback is running

vars == <<program, Ordered, boundTo, callList_, priority_, initialized_, aborted, last, invoked, pass>>

----------------------------------------------------------------------------
(* Bounds of the model *)

\* Handles are compared with priorities -MaxPriority .. MaxPriority and
\* function tokens 0 .. MaxFunction.
MaxPriority == 1
MaxFunction == 2
\* An Invoke whose callbacks call operations is explored up to MaxPass calls,
\* each callback calling at most MaxOps operations.
MaxPass == 4
MaxOps == 1
\* Hook is explored while fewer than MaxCalls Calls are registered in total.
MaxCalls == 3
\* In KeepOrder mode Hook is explored while priority_ is below MaxSeq.
MaxSeq == 3

----------------------------------------------------------------------------
(* Addresses and inputs *)

NULL == 0

Events == {"A", "B"}

\* Objects: X contains event A, Y contains event B, Z contains no event.
X == 16
Y == 24
Z == 48
Instances == {X, Y, Z}
Container == [e \in Events |-> IF e = "A" THEN X ELSE Y]

\* Bit patterns of two pointers to member functions.
M1 == 1
M2 == 9

\* A free function, a lambda object and a std::function target.
F1 == 64
L1 == 72
S1 == 80
\* A free function that no Hook call site of the programs registers for good.
G1 == 96
\* The first pointer-sized word of a by-value copy of a std::function.
StdFunctionWords == {80, 88}

\* The client programs.  "registry" uses event A alone, with every kind of
\* callable and three priorities; "copy" uses both events and assigns them;
\* in "reentrant" the callbacks hooked to event A call its operations.
Programs == {"registry", "copy"}
UsedEvents == IF program = "copy" THEN Events ELSE {"A"}

\* The Hook calls of the program, each with its template argument PRIORITY.
FunctionSites ==
    IF program = "copy" THEN {<<1, F1>>} ELSE {<<5, F1>>, <<1, F1>>}
LambdaSites ==
    IF program = "registry" THEN {<<-1, L1>>}
    ELSE IF program = "reentrant" THEN {<<1, L1>>}
    ELSE {}
StdFunctionSites ==
    IF program = "registry" THEN {<<1, S1>>} ELSE {}
MemberSites ==
    IF program = "registry"
    THEN {<<1, X, M1>>, <<1, X, M2>>, <<1, Y, M1>>, <<5, X, M1>>}
    ELSE IF program = "reentrant" THEN {<<5, X, M1>>}
    ELSE IF Ordered THEN {}
    ELSE {<<1, X, M1>>, <<1, Y, M1>>, <<5, Z, M1>>}
Priorities == {-1, 1, 5}

----------------------------------------------------------------------------
(* EventHandle *)

Invalid == 0
Function == 1
Lambda == 2
StdFunction == 3
MemberFunction == 4

\* using Priority = int16_t: the value of an int stored into a Priority.
Int16Max == 32767
ToInt16(x) == ((x + Int16Max + 1) % (2 * (Int16Max + 1))) - (Int16Max + 1)

RECURSIVE Xor(_, _)
Xor(a, b) ==
    IF a = 0 THEN b
    ELSE IF b = 0 THEN a
    ELSE (((a % 2) + (b % 2)) % 2) + (2 * Xor(a \div 2, b \div 2))

\* A pointer's address as an integer; an integer as itself.
POINTER_VALUE_CAST(t) == t

EventHandle(priority, identifier, function) ==
    [priority |-> priority, identifier |-> identifier,
     function |-> POINTER_VALUE_CAST(function)]

\* EventHandle(): the default member initializers.
DefaultHandle == [priority |-> 0, identifier |-> Invalid, function |-> 0]

HandleEq(a, b) ==
    /\ a.priority = b.priority
    /\ a.identifier = b.identifier
    /\ a.function = b.function

\* operator<: every member is less than the other's.
HandleLess(a, b) ==
    /\ a.priority < b.priority
    /\ a.identifier < b.identifier
    /\ a.function < b.function

----------------------------------------------------------------------------
(* Internal::Call *)

\* The three constructors: handle, class_ptr and the captured callable.
CallFn(func, handle) == [handle |-> handle, class_ptr |-> NULL, fn |-> func]
CallMember(class_ptr, func_ptr, handle) ==
    [handle |-> handle, class_ptr |-> class_ptr, fn |-> func_ptr]

\* A variant that compares the instance and the callable as well.
CallEqSubscriber(c, d) ==
    HandleEq(c.handle, d.handle) /\ c.class_ptr = d.class_ptr /\ c.fn = d.fn

\* Call::operator==(const Call&) and operator==(const EventHandle&).
CallEq(c, d) == HandleEq(c.handle, d.handle)
CallEqHandle(c, h) == HandleEq(c.handle, h)

\* A variant that calls a member function on the instance encoded in the
\* handle at Hook time instead of the Call's class_ptr.
CallInvokeHookedOwner(c) ==
    [handle |-> c.handle, fn |-> c.fn,
     this |-> IF c.handle.identifier = MemberFunction
              THEN Xor(c.handle.function, c.fn) ELSE NULL]

\* Call::operator(): function(class_ptr, args...); what is called, and on what.
CallInvoke(c) == [handle |-> c.handle, fn |-> c.fn, this |-> c.class_ptr]

----------------------------------------------------------------------------
(* Event: storage *)

\* callList_[priority]: the bucket of one priority (empty when the key is absent).
Bucket(calls, priority) == {c \in calls : c.handle.priority = priority}

\* A variant that orders the keys as unsigned 16-bit integers.
RECURSIVE SortedKeysUnsigned(_)
SortedKeysUnsigned(keys) ==
    IF keys = {} THEN << >>
    ELSE LET least == CHOOSE k \in keys :
                          \A j \in keys : (k % (2 * (Int16Max + 1))) <= (j % (2 * (Int16Max + 1)))
         IN  <<least>> \o SortedKeysUnsigned(keys \ {least})

\* The keys of the std::map in its iteration order: ascending, as signed integers.
RECURSIVE SortedKeys(_)
SortedKeys(keys) ==
    IF keys = {} THEN << >>
    ELSE LET least == CHOOSE k \in keys : \A j \in keys : k <= j
         IN  <<least>> \o SortedKeys(keys \ {least})

MapKeys(calls) == SortedKeys({c.handle.priority : c \in calls})

\* The orders in which an unordered_set may be iterated: every element once.
IterationOrders(bucket) ==
    {s \in [1 .. Cardinality(bucket) -> bucket] :
        \A i, j \in 1 .. Cardinality(bucket) : i # j => s[i] # s[j]}

\* A variant that inserts without looking for an equal element.
was_added_always(bucket, call) == TRUE

\* USet::emplace_back: was_added, the result of unordered_set::emplace.
was_added(bucket, call) == \A d \in bucket : ~CallEq(d, call)

\* A variant that compares the identifier alone.
FoundIdentifier(bucket, handle) ==
    \E c \in bucket : c.handle.identifier = handle.identifier

\* std::find(call_list.begin(), call_list.end(), handle) != call_list.end()
Found(bucket, handle) == \E c \in bucket : CallEqHandle(c, handle)

\* A variant that erases every Call of the handle's callable, whatever its bucket.
RemoveCallAnyPriority(calls, handle) ==
    calls \ {c \in calls : /\ c.handle.identifier = handle.identifier
                           /\ c.handle.function = handle.function}

\* call_list.erase(call) in RemoveCall: the element std::find returned, in the
\* bucket of the handle's priority.
RemoveCall(calls, handle) ==
    LET call_list == Bucket(calls, handle.priority)
    IN  calls \ {c \in call_list : CallEqHandle(c, handle)}

\* A variant that erases every member-function Call, whatever its instance.
ClassMatchesMemberFunction(calls, handle) ==
    {c \in calls : c.handle.identifier = MemberFunction}

\* The Calls UnhookClass erases: those whose identifier equals the sentinel's.
ClassMatches(calls, handle) ==
    {c \in calls : c.handle.identifier = handle.identifier}

\* A variant that rebinds every Call that has a class_ptr.
ReplaceBoundAll(calls, toReplace, bound) ==
    {IF c.class_ptr # NULL THEN [c EXCEPT !.class_ptr = bound] ELSE c : c \in calls}

\* ReplaceBound, run on the destination with its own boundTo.
ReplaceBound(calls, toReplace, bound) ==
    {IF c.class_ptr = toReplace THEN [c EXCEPT !.class_ptr = bound] ELSE c : c \in calls}

\* A variant that counts the buckets that hold a Call.
SizeBuckets(calls) == Cardinality({c.handle.priority : c \in calls})

\* size += call_list.second.size(), over every bucket.
Size(calls) == Cardinality(calls)
CallListSize(e) == Size(callList_[e])

\* A variant that clears the first bucket of the map alone.
ClearFirstBucket(calls) ==
    calls \ {c \in calls : \A d \in calls : c.handle.priority <= d.handle.priority}

\* call_list.second.clear(), for every bucket of the map.
ClearBuckets(calls) ==
    calls \ UNION {Bucket(calls, p) : p \in {c.handle.priority : c \in calls}}

\* The sequences of calls of one Invoke over `calls`, bucket after bucket.
RECURSIVE InvokeFrom(_, _)
InvokeFrom(keys, calls) ==
    IF keys = << >> THEN {<< >>}
    ELSE {[i \in 1 .. Len(o) |-> CallInvoke(o[i])] \o rest :
              o \in IterationOrders(Bucket(calls, Head(keys))),
              rest \in InvokeFrom(Tail(keys), calls)}

\* A variant that calls a callable once, however many priorities it is
\* registered at.
InvokeLogsOnce(calls) ==
    LET first == {c \in calls :
                     \A d \in calls :
                         (d.handle.identifier = c.handle.identifier /\
                          d.handle.function = c.handle.function) =>
                             c.handle.priority <= d.handle.priority}
    IN  InvokeFrom(MapKeys(first), first)

\* for (auto& priority : callList_) for (auto& call : priority.second) call(args...)
InvokeLogs(calls) == InvokeFrom(MapKeys(calls), calls)

----------------------------------------------------------------------------
(* Event: operations *)

\* The record of an operation: its name, its event, the handle it was given
\* or returned, the pointer it was given, the other event of an assignment
\* and the size it returned.
Op(name, e, handle, ptr, other, ret) ==
    [op |-> name, ev |-> e, handle |-> handle, ptr |-> ptr, src |-> other, ret |-> ret]

\* No Invoke is in progress.
NoPass ==
    [ev |-> "", running |-> CallFn(NULL, DefaultHandle), todo |-> << >>, valid |-> TRUE, ops |-> 0]

\* A failed assert(): the process ends, nothing else changes.
Abort(assertion, record) ==
    /\ aborted' = assertion
    /\ last' = record
    /\ UNCHANGED <<program, Ordered, boundTo, callList_, priority_, initialized_>>

\* A variant that takes an event bound to nothing for an uninitialized one.
AssertInitializedBound(e) == boundTo[e] # NULL

\* assert(initialized_ && ...)
AssertInitialized(e) == initialized_[e]

Init ==
    /\ program \in Programs
    /\ Ordered \in BOOLEAN
    /\ boundTo = [e \in Events |-> NULL]
    /\ callList_ = [e \in Events |-> {}]
    /\ priority_ = [e \in Events |-> 0]
    /\ initialized_ = [e \in Events |-> FALSE]
    /\ aborted = ""
    /\ last = Op("Event", "", DefaultHandle, NULL, "", 0)
    /\ invoked = << >>
    /\ pass = NoPass

\* BindTo(Bind*) and BindTo(nullptr_t), also run by the two binding constructors.
BindTo(e, bindTo) ==
    /\ aborted = ""
    /\ boundTo' = [boundTo EXCEPT ![e] = bindTo]
    /\ initialized_' = [initialized_ EXCEPT ![e] = TRUE]
    /\ last' = Op("BindTo", e, DefaultHandle, bindTo, "", 0)
    /\ UNCHANGED <<program, Ordered, callList_, priority_, aborted>>

\* A variant that increments priority_ at every Hook, in either mode.
CounterAfterHookAlways(e) == ToInt16(priority_[e] + 1)

\* Ordered ? priority_++ : PRIORITY
HookPriority(e, PRIORITY) == IF Ordered THEN priority_[e] ELSE PRIORITY
CounterAfterHook(e) == IF Ordered THEN ToInt16(priority_[e] + 1) ELSE priority_[e]

\* The statements the four Hook overloads share, given the Call they construct.
HookCall(e, call) ==
    LET record == Op("Hook", e, call.handle, call.class_ptr, "", 0)
    IN  IF ~AssertInitialized(e)
        THEN Abort("AssertInitialized", record)
        ELSE IF ~was_added(Bucket(callList_[e], call.handle.priority), call)
        THEN Abort("emplace_back", record)
        ELSE /\ callList_' = [callList_ EXCEPT ![e] = @ \cup {call}]
             /\ priority_' = [priority_ EXCEPT ![e] = CounterAfterHook(e)]
             /\ last' = record
             /\ UNCHANGED <<program, Ordered, boundTo, initialized_, aborted>>

\* The number of Hook calls a KeepOrder program makes before it is observed.
RepeatedHooks == Int16Max - 1

\* The Hook calls counted by priority_ since the event was first observed.
HooksSince(e) ==
    IF priority_[e] \in 0 .. MaxSeq
    THEN priority_[e]
    ELSE ToInt16(priority_[e] - RepeatedHooks)

\* Hook is explored within the bounds of the model.
HookBound(e) ==
    /\ aborted = ""
    /\ CallListSize("A") + CallListSize("B") < MaxCalls
    /\ Ordered => HooksSince(e) \in 0 .. (MaxSeq - 1)

\* Hook(std::function<Signature> func)
HookStdFunction(e, PRIORITY, func, word) ==
    /\ HookBound(e)
    /\ LET handle == EventHandle(HookPriority(e, PRIORITY), StdFunction, word)
       IN  HookCall(e, CallFn(func, handle))

\* Hook(Fn&& lambda)
HookLambda(e, PRIORITY, lambda) ==
    /\ HookBound(e)
    /\ LET handle == EventHandle(HookPriority(e, PRIORITY), Lambda, lambda)
       IN  HookCall(e, CallFn(lambda, handle))

\* Hook(Fn* func_ptr)
HookFunction(e, PRIORITY, func_ptr) ==
    /\ HookBound(e)
    /\ LET handle == EventHandle(HookPriority(e, PRIORITY), Function, func_ptr)
       IN  HookCall(e, CallFn(func_ptr, handle))

\* Hook(C* class_ptr, Fn func_ptr)
HookMember(e, PRIORITY, class_ptr, func_ptr) ==
    /\ HookBound(e)
    /\ LET handle == EventHandle(HookPriority(e, PRIORITY), MemberFunction,
                                 Xor(POINTER_VALUE_CAST(class_ptr), POINTER_VALUE_CAST(func_ptr)))
       IN  HookCall(e, CallMember(class_ptr, func_ptr, handle))

\* RepeatedHooks times Unhook(Hook(func_ptr)) on an empty KeepOrder event:
\* every Hook takes the next priority_, every Unhook empties the event again.
HookUnhookRepeated(e, func_ptr) ==
    /\ aborted = ""
    /\ Ordered
    /\ AssertInitialized(e)
    /\ callList_[e] = {}
    /\ priority_[e] = 0
    /\ priority_' = [priority_ EXCEPT ![e] = ToInt16(RepeatedHooks)]
    /\ last' = Op("HookUnhookRepeated", e,
                  EventHandle(ToInt16(RepeatedHooks - 1), Function, func_ptr), NULL, "", 0)
    /\ UNCHANGED <<program, Ordered, boundTo, callList_, initialized_, aborted>>

\* The number of Hook calls after which priority_ has its value of one Hook
\* call earlier: one less than the number of values of an int16_t.
CycleHooks == (2 * (Int16Max + 1)) - 1

\* CycleHooks times Unhook(Hook(func_ptr)) on a KeepOrder event after its
\* first Hook, func_ptr not being registered: every Hook takes the next
\* priority_, through the wrap from 32767 to -32768, every Unhook removes the
\* Call again, and the Calls of the event stay as they were.  It is explored
\* for an event whose first Hook was that of a free function.
HookUnhookCycle(e, func_ptr) ==
    /\ aborted = ""
    /\ Ordered
    /\ AssertInitialized(e)
    /\ priority_[e] = 1
    /\ \A c \in callList_[e] :
           /\ c.handle.identifier = Function
           /\ c.handle.function # POINTER_VALUE_CAST(func_ptr)
    /\ priority_' = [priority_ EXCEPT ![e] = ToInt16(priority_[e] + CycleHooks)]
    /\ last' = Op("HookUnhookCycle", e,
                  EventHandle(ToInt16(priority_[e] + CycleHooks - 1), Function, func_ptr),
                  NULL, "", 0)
    /\ UNCHANGED <<program, Ordered, boundTo, callList_, initialized_, aborted>>

\* A variant that unhooks every Call once it has been called.
InvokeOnce(e) ==
    /\ aborted = ""
    /\ LET record == Op("Invoke", e, DefaultHandle, NULL, "", 0)
       IN  IF ~AssertInitialized(e)
           THEN Abort("AssertInitialized", record) /\ invoked' = << >>
           ELSE \E log \in InvokeLogs(callList_[e]) :
                    /\ invoked' = log
                    /\ last' = record
                    /\ callList_' = [callList_ EXCEPT ![e] = {}]
                    /\ UNCHANGED <<program, Ordered, boundTo, priority_, initialized_, aborted>>

\* Invoke(Args... args) noexcept(invocable<Args...>()), and invocable() is
\* true: every Call returns, or the k-th Call of the iteration throws and the
\* exception, which may not leave a noexcept function, ends the process in
\* std::terminate.  The record of an Invoke holds the handle of the Call that
\* threw.
Invoke(e) ==
    /\ aborted = ""
    /\ LET record == Op("Invoke", e, DefaultHandle, NULL, "", 0)
       IN  IF ~AssertInitialized(e)
           THEN Abort("AssertInitialized", record) /\ invoked' = << >>
           ELSE \E log \in InvokeLogs(callList_[e]) :
                    \/ /\ invoked' = log
                       /\ last' = record
                       /\ UNCHANGED <<program, Ordered, boundTo, callList_, priority_, initialized_, aborted>>
                    \/ \E k \in 1 .. Len(log) :
                           /\ invoked' = SubSeq(log, 1, k)
                           /\ last' = [record EXCEPT !.handle = log[k].handle]
                           /\ aborted' = "std::terminate"
                           /\ UNCHANGED <<program, Ordered, boundTo, callList_, priority_, initialized_>>

\* Unhook(EventHandle handle), with RemoveCall
Unhook(e, handle) ==
    /\ aborted = ""
    /\ LET record == Op("Unhook", e, handle, NULL, "", 0)
       IN  IF ~AssertInitialized(e)
           THEN Abort("AssertInitialized", record)
           ELSE IF ~Found(Bucket(callList_[e], handle.priority), handle)
           THEN Abort("RemoveCall", record)
           ELSE /\ callList_' = [callList_ EXCEPT ![e] = RemoveCall(@, handle)]
                /\ last' = record
                /\ UNCHANGED <<program, Ordered, boundTo, priority_, initialized_, aborted>>

\* EventHandle handle(0, class_ptr, 0): class_ptr is the identifier argument.
ClassHandle(class_ptr) == EventHandle(0, class_ptr, 0)

\* UnhookClass(C* class_ptr)
UnhookClass(e, class_ptr) ==
    /\ aborted = ""
    /\ LET handle == ClassHandle(class_ptr)
           record == Op("UnhookClass", e, handle, class_ptr, "", 0)
           erased == ClassMatches(callList_[e], handle)
       IN  IF ~AssertInitialized(e)
           THEN Abort("AssertInitialized", record)
           ELSE IF erased = {}
           THEN Abort("UnhookClass", record)
           ELSE /\ callList_' = [callList_ EXCEPT ![e] = @ \ erased]
                /\ last' = record
                /\ UNCHANGED <<program, Ordered, boundTo, priority_, initialized_, aborted>>

\* CallListSize()
GetCallListSize(e) ==
    /\ aborted = ""
    /\ LET record == Op("CallListSize", e, DefaultHandle, NULL, "", CallListSize(e))
       IN  IF ~AssertInitialized(e)
           THEN Abort("AssertInitialized", [record EXCEPT !.ret = 0])
           ELSE /\ last' = record
                /\ UNCHANGED <<program, Ordered, boundTo, callList_, priority_, initialized_, aborted>>

\* Clear()
Clear(e) ==
    /\ aborted = ""
    /\ LET record == Op("Clear", e, DefaultHandle, NULL, "", 0)
       IN  IF ~AssertInitialized(e)
           THEN Abort("AssertInitialized", record)
           ELSE /\ callList_' = [callList_ EXCEPT ![e] = ClearBuckets(@)]
                /\ last' = record
                /\ UNCHANGED <<program, Ordered, boundTo, priority_, initialized_, aborted>>

\* A variant that keeps the Calls `this` held and adds those of `other`.
AssignedCallsMerged(this, other) ==
    callList_[this] \cup
        (IF boundTo[this] # NULL /\ boundTo[other] # NULL
         THEN ReplaceBound(callList_[other], boundTo[other], boundTo[this])
         ELSE callList_[other])

\* The Calls of `this` after operator=(other).
AssignedCalls(this, other) ==
    IF boundTo[this] # NULL /\ boundTo[other] # NULL
    THEN ReplaceBound(callList_[other], boundTo[other], boundTo[this])
    ELSE callList_[other]

\* Event& operator=(const Event& other)
Assign(this, other) ==
    /\ aborted = ""
    /\ last' = Op("operator=", this, DefaultHandle, NULL, other, 0)
    /\ IF other = this
       THEN UNCHANGED <<callList_, priority_, initialized_>>
       ELSE /\ callList_' = [callList_ EXCEPT ![this] = AssignedCalls(this, other)]
            /\ priority_' = [priority_ EXCEPT ![this] = priority_[other]]
            /\ initialized_' = [initialized_ EXCEPT ![this] = initialized_[other]]
    /\ UNCHANGED <<program, Ordered, boundTo, aborted>>

----------------------------------------------------------------------------
(* Inputs *)

\* An event is bound to nothing or to the object that contains it.
BindInputs(e) == {NULL, Container[e]}

\* The handles a caller passes to Unhook: one registered in either event,
\* one of those with another priority, or the handle of the latest operation.
UnhookInputs ==
    LET held == {c.handle : c \in callList_["A"] \cup callList_["B"]}
        others == IF Ordered
                  THEN {h.priority : h \in held} \cup {priority_[e] : e \in Events}
                  ELSE Priorities
    IN  held \cup {last.handle}
             \cup {[h EXCEPT !.priority = p] : h \in held, p \in others}

\* An operation the program runs while no Invoke is in progress.
Outside == pass = NoPass /\ pass' = pass /\ invoked' = << >>

Next ==
    \/ \E e \in UsedEvents : \E bindTo \in BindInputs(e) : BindTo(e, bindTo) /\ Outside
    \/ \E e \in UsedEvents, s \in StdFunctionSites, w \in StdFunctionWords :
           HookStdFunction(e, s[1], s[2], w) /\ Outside
    \/ \E e \in UsedEvents, s \in LambdaSites : HookLambda(e, s[1], s[2]) /\ Outside
    \/ \E e \in UsedEvents, s \in FunctionSites : HookFunction(e, s[1], s[2]) /\ Outside
    \/ \E e \in UsedEvents, s \in MemberSites : HookMember(e, s[1], s[2], s[3]) /\ Outside
    \/ \E e \in UsedEvents : program = "registry" /\ HookUnhookRepeated(e, F1) /\ Outside
    \/ \E e \in UsedEvents : program = "registry" /\ HookUnhookCycle(e, G1) /\ Outside
    \/ \E e \in UsedEvents : Invoke(e) /\ UNCHANGED pass
    \/ \E e \in UsedEvents, h \in UnhookInputs : Unhook(e, h) /\ Outside
    \/ \E e \in UsedEvents, c \in Instances : UnhookClass(e, c) /\ Outside
    \/ \E e \in UsedEvents : GetCallListSize(e) /\ Outside
    \/ \E e \in UsedEvents : Clear(e) /\ Outside
    \/ \E this \in UsedEvents, other \in UsedEvents : Assign(this, other) /\ Outside

Spec == Init /\ [][Next]_vars

----------------------------------------------------------------------------
(* Event: an Invoke whose callbacks call operations of the same event *)

\* `pass` holds the position of the two range-for loops of Invoke while a
\* callback runs: the event, the Call that is running, whose priority is the
\* key the outer loop is at, the Calls of the bucket that the inner iterator
\* has still to reach, whether that iterator is valid, and the number of
\* operations the running callback has called.  An iterator of an
\* unordered_set is invalidated when its element is erased and when an
\* insertion rehashes the set; incrementing it afterwards is undefined: the
\* process crashes, or the loop goes on with the elements that followed the
\* erased one, as they were.

\* A variant that iterates over a copy of the bucket taken when it was entered.
TodoSnapshot(todo, erased) == todo

\* The elements after the iterator once `erased` left the set: erase keeps the
\* order of the elements that stay.
TodoAfterErase(todo, erased) == SelectSeq(todo, LAMBDA c : c \notin erased)

\* The pass after an operation of a callback erased the Calls `erased`.
AfterErase(erased) ==
    IF ~pass.valid \/ pass.running \in erased
    THEN [pass EXCEPT !.valid = FALSE, !.ops = @ + 1]
    ELSE [pass EXCEPT !.todo = TodoAfterErase(@, erased), !.ops = @ + 1]

\* A sequence with `call` inserted as its i-th element.
InsertAt(seq, i, call) == SubSeq(seq, 1, i - 1) \o <<call>> \o SubSeq(seq, i, Len(seq))

\* The pass after a Hook of a callback emplaced the Calls `added` (one or
\* none): in another bucket the iterator is not concerned; in the bucket under
\* iteration the Call is linked before the iterator or somewhere after it, or
\* the set is rehashed.
AfterEmplace(added) ==
    IF added = {} \/ ~pass.valid
           \/ \A c \in added : c.handle.priority # pass.running.handle.priority
    THEN {[pass EXCEPT !.ops = @ + 1]}
    ELSE {[pass EXCEPT !.ops = @ + 1], [pass EXCEPT !.valid = FALSE, !.ops = @ + 1]} \cup
         {[pass EXCEPT !.todo = InsertAt(@, i, c), !.ops = @ + 1] :
              i \in 1 .. (Len(pass.todo) + 1), c \in added}

\* The Invoke on e is at a callback; the callback calls one more operation;
\* what its operation does to the pass.
InPass(e) == pass.ev = e
Running(e) == InPass(e) /\ pass.ops < MaxOps
Erased(e) == pass' = AfterErase(callList_[e] \ callList_'[e]) /\ UNCHANGED invoked
Emplaced(e) == pass' \in AfterEmplace(callList_'[e] \ callList_[e]) /\ UNCHANGED invoked

\* The pass entered at the begin() of the first bucket of `calls`, if any.
FirstOf(e, calls) ==
    IF calls = {} THEN {NoPass}
    ELSE {[ev |-> e, running |-> o[1], todo |-> Tail(o), valid |-> TRUE, ops |-> 0] :
              o \in IterationOrders(Bucket(calls, Head(MapKeys(calls))))}

\* Invoke up to its first call: AssertInitialized(), then the begin() of
\* both loops and (call)(args...).
InvokeBegin(e) ==
    /\ aborted = ""
    /\ pass = NoPass
    /\ LET record == Op("Invoke", e, DefaultHandle, NULL, "", 0)
       IN  IF ~AssertInitialized(e)
           THEN Abort("AssertInitialized", record) /\ invoked' = << >> /\ pass' = pass
           ELSE /\ pass' \in FirstOf(e, callList_[e])
                /\ invoked' = IF pass' = NoPass THEN << >> ELSE <<CallInvoke(pass'.running)>>
                /\ last' = record
                /\ UNCHANGED <<program, Ordered, boundTo, callList_, priority_, initialized_, aborted>>

\* The callback returns and the inner iterator is incremented: the next Call
\* of the bucket is called, or the outer loop goes to the next key of the map
\* and calls the first Call of its bucket, or Invoke returns.
InvokeNext(e) ==
    /\ aborted = ""
    /\ InPass(e)
    /\ LET key == pass.running.handle.priority
           later == {c \in callList_[e] : c.handle.priority > key}
       IN  pass' \in IF pass.todo # << >>
                     THEN {[pass EXCEPT !.running = Head(pass.todo), !.todo = Tail(pass.todo),
                                        !.ops = 0]}
                     ELSE FirstOf(e, later)
    /\ pass' # NoPass => Len(invoked) < MaxPass
    /\ invoked' = IF pass' = NoPass THEN invoked ELSE Append(invoked, CallInvoke(pass'.running))
    /\ last' = Op("Invoke", e, DefaultHandle, NULL, "", 0)
    /\ UNCHANGED <<program, Ordered, boundTo, callList_, priority_, initialized_, aborted>>

\* The callback returns and the increment of the invalid iterator reads
\* freed memory: the process ends with SIGSEGV.
InvokeCrash(e) ==
    /\ aborted = ""
    /\ InPass(e)
    /\ ~pass.valid
    /\ aborted' = "SIGSEGV"
    /\ last' = Op("Invoke", e, DefaultHandle, NULL, "", 0)
    /\ UNCHANGED <<program, Ordered, boundTo, callList_, priority_, initialized_, invoked, pass>>

InitReentrant ==
    /\ program = "reentrant"
    /\ Ordered \in BOOLEAN
    /\ boundTo = [e \in Events |-> NULL]
    /\ callList_ = [e \in Events |-> {}]
    /\ priority_ = [e \in Events |-> 0]
    /\ initialized_ = [e \in Events |-> FALSE]
    /\ aborted = ""
    /\ last = Op("Event", "", DefaultHandle, NULL, "", 0)
    /\ invoked = << >>
    /\ pass = NoPass

NextReentrant ==
    \/ \E e \in UsedEvents : \E bindTo \in BindInputs(e) : BindTo(e, bindTo) /\ Outside
    \/ \E e \in UsedEvents, s \in LambdaSites : HookLambda(e, s[1], s[2]) /\ Outside
    \/ \E e \in UsedEvents, s \in FunctionSites : HookFunction(e, s[1], s[2]) /\ Outside
    \/ \E e \in UsedEvents, s \in MemberSites : HookMember(e, s[1], s[2], s[3]) /\ Outside
    \/ \E e \in UsedEvents : InvokeBegin(e)
    \/ \E e \in UsedEvents : InvokeNext(e)
    \/ \E e \in UsedEvents : InvokeCrash(e)
    \/ \E e \in UsedEvents, s \in LambdaSites :
           Running(e) /\ HookLambda(e, s[1], s[2]) /\ Emplaced(e)
    \/ \E e \in UsedEvents, s \in FunctionSites :
           Running(e) /\ HookFunction(e, s[1], s[2]) /\ Emplaced(e)
    \/ \E e \in UsedEvents, h \in UnhookInputs : Running(e) /\ Unhook(e, h) /\ Erased(e)
    \/ \E e \in UsedEvents, c \in Instances : Running(e) /\ UnhookClass(e, c) /\ Erased(e)
    \/ \E e \in UsedEvents : Running(e) /\ Clear(e) /\ Erased(e)

SpecReentrant == InitReentrant /\ [][NextReentrant]_vars

----------------------------------------------------------------------------
(* EventHandle: a program that compares handles *)

\* The handles the program constructs with EventHandle(priority, identifier, function).
HandleInputs ==
    {EventHandle(p, i, f) : p \in (0 - MaxPriority) .. MaxPriority,
                            i \in Invalid .. MemberFunction,
                            f \in 0 .. MaxFunction}

\* The record of a comparison: the operator, its operands and its result.
Compared(name, a, b, ret) == [op |-> name, handle |-> a, other |-> b, ret |-> ret]

\* The program has constructed two handles and has not compared them yet.
InitHandles ==
    /\ program = "registry"
    /\ Ordered = FALSE
    /\ boundTo = [e \in Events |-> NULL]
    /\ callList_ = [e \in Events |-> {}]
    /\ priority_ = [e \in Events |-> 0]
    /\ initialized_ = [e \in Events |-> FALSE]
    /\ aborted = ""
    /\ last \in {Compared("EventHandle", a, b, FALSE) : a, b \in HandleInputs}
    /\ invoked = << >>
    /\ pass = NoPass

\* a < b
LessThan(a, b) ==
    /\ last.op = "EventHandle"
    /\ last' = Compared("operator<", a, b, HandleLess(a, b))
    /\ UNCHANGED <<program, Ordered, boundTo, callList_, priority_, initialized_, aborted, invoked, pass>>

\* a == b
Equals(a, b) ==
    /\ last.op = "EventHandle"
    /\ last' = Compared("operator==", a, b, HandleEq(a, b))
    /\ UNCHANGED <<program, Ordered, boundTo, callList_, priority_, initialized_, aborted, invoked, pass>>

NextHandles ==
    \/ LessThan(last.handle, last.other)
    \/ Equals(last.handle, last.other)

SpecHandles == InitHandles /\ [][NextHandles]_vars

----------------------------------------------------------------------------
(* Properties *)

\* The event and the positions of the log of the most recent operation.
SuccessfulInvoke == last.op = "Invoke" /\ aborted = ""
Positions == 1 .. Len(invoked)

\* C1: in explicit-priority mode (KeepOrder false) every Invoke calls a
\* registered Call a before a registered Call b whenever a's priority is less
\* than b's as signed 16-bit integers, so negative priorities come first.
C1_AscendingPriority ==
    (~Ordered /\ SuccessfulInvoke) =>
        \A a, b \in callList_[last.ev] :
            a.handle.priority < b.handle.priority =>
                /\ \E i, j \in Positions :
                       /\ i < j
                       /\ invoked[i].handle = a.handle
                       /\ invoked[j].handle = b.handle
                /\ \A i, j \in Positions :
                       (invoked[i].handle = a.handle /\ invoked[j].handle = b.handle) => i < j

\* An Invoke that called three Calls at priorities -1, 1 and 5, in this order.
C1_Witness ==
    /\ ~Ordered
    /\ SuccessfulInvoke
    /\ Len(invoked) = 3
    /\ invoked[1].handle.priority = -1
    /\ invoked[2].handle.priority = 1
    /\ invoked[3].handle.priority = 5

\* C2: an Invoke on an initialized event calls every Call registered when it
\* starts exactly once, calls nothing that is not registered, and calls a
\* member function on the Call's current class_ptr.
C2_EveryCallOnce ==
    SuccessfulInvoke =>
        /\ Len(invoked) = Cardinality(callList_[last.ev])
        /\ \A c \in callList_[last.ev] :
               Cardinality({i \in Positions : invoked[i].handle = c.handle}) = 1
        /\ \A i \in Positions :
               \E c \in callList_[last.ev] :
                   /\ invoked[i].handle = c.handle
                   /\ invoked[i].fn = c.fn
                   /\ invoked[i].this = c.class_ptr

\* An Invoke on B that called a member function hooked with X on Y, the owner
\* an assignment rebound it to, and a second Call.
C2_Witness ==
    /\ SuccessfulInvoke
    /\ Len(invoked) >= 2
    /\ \E i \in Positions :
           /\ invoked[i].handle = EventHandle(1, MemberFunction, Xor(X, M1))
           /\ invoked[i].this = Y

\* The handles of a set of Calls, and whether one of them equals a handle.
Handles(calls) == {c.handle : c \in calls}
Registered(calls, handle) == \E c \in calls : HandleEq(c.handle, handle)

\* The step is operation `name` on an event that passes AssertInitialized.
Step(name) == last'.op = name /\ initialized_[last'.ev]

\* C3: in order-preserving mode (KeepOrder true) Invoke calls the registered
\* callables in the order in which they were hooked: a callable that is hooked
\* is called after all those registered before it, whose order stays.
C3_HookOrder ==
    [][(Ordered /\ Step("Hook") /\ aborted' = "") =>
          \A log \in InvokeLogs(callList_'[last'.ev]) :
              /\ log[Len(log)].handle = last'.handle
              /\ SubSeq(log, 1, Len(log) - 1) \in InvokeLogs(callList_[last'.ev])]_vars

\* C4: no two Calls in one bucket have equal handles, and a Hook whose handle
\* equals that of a Call registered in the bucket fails the assertion of
\* emplace_back and registers nothing.
C4_NoDuplicateHandles ==
    [][/\ \A e \in Events : \A c, d \in callList_'[e] : HandleEq(c.handle, d.handle) => c = d
       /\ (Step("Hook") /\ Registered(callList_[last'.ev], last'.handle)) =>
              (aborted' = "emplace_back" /\ callList_' = callList_)]_vars

\* A Hook that failed the assertion of emplace_back on an equal handle.
C4_Witness ==
    /\ aborted = "emplace_back"
    /\ last.op = "Hook"
    /\ Registered(callList_[last.ev], last.handle)

\* C5: Unhook(h) with h registered removes the Call with handle h and no
\* other: CallListSize decreases by one, every other Call stays, and no
\* Invoke calls the removed registration any more.
C5_UnhookRemovesOne ==
    [][(Step("Unhook") /\ Registered(callList_[last'.ev], last'.handle)) =>
          LET e == last'.ev
              h == last'.handle
          IN  /\ aborted' = ""
              /\ callList_'[e] = {c \in callList_[e] : c.handle # h}
              /\ Size(callList_'[e]) = Size(callList_[e]) - 1
              /\ \A o \in Events \ {e} : callList_'[o] = callList_[o]
              /\ \A log \in InvokeLogs(callList_'[e]) :
                     \A i \in 1 .. Len(log) : log[i].handle # h]_vars

\* An Unhook that removed a Call and left the same callable registered at
\* another priority.
C5_Witness ==
    /\ last.op = "Unhook"
    /\ aborted = ""
    /\ ~Registered(callList_[last.ev], last.handle)
    /\ \E c \in callList_[last.ev] :
           /\ c.handle.identifier = last.handle.identifier
           /\ c.handle.function = last.handle.function

\* C6: Unhook(h) with no registered Call whose handle equals h in priority,
\* identifier and function fails the assertion of RemoveCall and removes
\* nothing.
C6_UnhookNotFound ==
    [][(Step("Unhook") /\ ~Registered(callList_[last'.ev], last'.handle)) =>
          (aborted' = "RemoveCall" /\ callList_' = callList_)]_vars

\* An Unhook that failed on a handle with the identifier and function of a
\* registered Call and another priority.
C6_Witness ==
    /\ aborted = "RemoveCall"
    /\ last.op = "Unhook"
    /\ \E c \in callList_[last.ev] :
           /\ c.handle.identifier = last.handle.identifier
           /\ c.handle.function = last.handle.function
           /\ c.handle.priority # last.handle.priority

\* The member-function Calls among `calls` whose owner is `instance`.
OwnedBy(calls, instance) ==
    {c \in calls : c.handle.identifier = MemberFunction /\ c.class_ptr = instance}

\* C7: UnhookClass(instance) removes the member-function Calls whose owner is
\* the instance, at every priority, and no other Call.
C7_UnhookClassRemovesOwned ==
    [][Step("UnhookClass") =>
          callList_'[last'.ev] =
              callList_[last'.ev] \ OwnedBy(callList_[last'.ev], last'.ptr)]_vars

CopyStep == last'.op = "operator=" /\ last'.src # last'.ev

\* C9: after B = A with both events bound, every Call of B whose owner was
\* A's bound object has B's bound object as owner, a Call of another instance
\* keeps its owner and a Call that is no member function keeps a null owner;
\* when A or B is bound to nothing no owner is rewritten.
C9_OwnersAfterCopy ==
    [][CopyStep =>
          LET this == last'.ev
              other == last'.src
              rebinds == boundTo[this] # NULL /\ boundTo[other] # NULL
              Owner(c) == IF rebinds /\ c.class_ptr = boundTo[other]
                          THEN boundTo[this] ELSE c.class_ptr
          IN  /\ \A c \in callList_[other] :
                     \E d \in callList_'[this] :
                         /\ d.handle = c.handle
                         /\ d.fn = c.fn
                         /\ d.class_ptr = Owner(c)
                         /\ c.handle.identifier # MemberFunction => d.class_ptr = NULL
              /\ Cardinality(callList_'[this]) = Cardinality(callList_[other])]_vars

\* B = A with A bound to X and B to Y: B holds the Call hooked with X, now on
\* Y, a Call on Z and a Call with no owner, and A still holds the Call on X.
C9_Witness ==
    /\ last.op = "operator=" /\ last.ev = "B" /\ last.src = "A"
    /\ aborted = ""
    /\ boundTo["A"] = X /\ boundTo["B"] = Y
    /\ \E c \in callList_["B"] :
           c.handle.function = Xor(X, M1) /\ c.fn = M1 /\ c.class_ptr = Y
    /\ \E c \in callList_["B"] : c.class_ptr = Z
    /\ \E c \in callList_["B"] : c.class_ptr = NULL
    /\ \E c \in callList_["A"] :
           c.handle.function = Xor(X, M1) /\ c.fn = M1 /\ c.class_ptr = X

\* C10: after B = A, B holds the handles A holds in every bucket and A's
\* priority_, no other Call, and its own boundTo; A is unchanged; A = A
\* changes nothing.
C10_CopyAssignment ==
    [][(last'.op = "operator=") =>
          LET this == last'.ev
              other == last'.src
          IN  IF this = other
              THEN UNCHANGED <<boundTo, callList_, priority_, initialized_>>
              ELSE /\ \A p \in {c.handle.priority : c \in callList_[other] \cup callList_'[this]} :
                          Handles(Bucket(callList_'[this], p)) = Handles(Bucket(callList_[other], p))
                   /\ priority_'[this] = priority_[other]
                   /\ boundTo' = boundTo
                   /\ callList_'[other] = callList_[other]
                   /\ priority_'[other] = priority_[other]]_vars

\* An assignment in KeepOrder mode after which the destination holds the
\* source's Calls and its advanced priority_, and keeps its own boundTo.
C10_Witness ==
    /\ last.op = "operator=" /\ last.ev # last.src
    /\ aborted = ""
    /\ Ordered
    /\ callList_[last.ev] # {}
    /\ Handles(callList_[last.ev]) = Handles(callList_[last.src])
    /\ priority_[last.ev] = priority_[last.src]
    /\ priority_[last.ev] > 0
    /\ boundTo[last.ev] # boundTo[last.src]

\* C11: after Clear() on an initialized event CallListSize() is 0, an Invoke
\* calls nothing, the event is still initialized, and a Hook that follows the
\* Clear on that event succeeds.
C11_ClearEmpties ==
    [][/\ Step("Clear") =>
              /\ aborted' = ""
              /\ Size(callList_'[last'.ev]) = 0
              /\ InvokeLogs(callList_'[last'.ev]) = {<< >>}
              /\ initialized_'[last'.ev]
              /\ \A o \in Events \ {last'.ev} : callList_'[o] = callList_[o]
       /\ (last.op = "Clear" /\ aborted = "" /\ last'.op = "Hook" /\ last'.ev = last.ev) =>
              (aborted' = "" /\ Size(callList_'[last'.ev]) = 1)]_vars

\* A Clear that left nothing of the Calls hooked in KeepOrder mode while the
\* other event keeps the Calls it holds.
C11_Witness ==
    /\ last.op = "Clear"
    /\ aborted = ""
    /\ Ordered
    /\ priority_[last.ev] > 1
    /\ callList_[last.ev] = {}
    /\ \E o \in Events : callList_[o] # {}

\* C12: starting from an empty event, every Hook that succeeds adds exactly
\* one Call and a Hook that fails adds none, in either mode and at every
\* priority, so after Hook calls alone CallListSize() returns the number of
\* Hook calls that succeeded; CallListSize() returns the number of Calls held.
C12_SizeCountsHooks ==
    (\A e \in Events : CallListSize(e) = 0) /\
    [][/\ Step("Hook") =>
              Size(callList_'[last'.ev]) =
                  Size(callList_[last'.ev]) + (IF aborted' = "" THEN 1 ELSE 0)
       /\ (Step("CallListSize") /\ aborted' = "") =>
              last'.ret = Cardinality(callList_[last'.ev])]_vars

\* CallListSize() returned 3 after three Hook calls, two of them at one
\* priority.
C12_Witness ==
    /\ last.op = "CallListSize"
    /\ aborted = ""
    /\ last.ret = 3
    /\ \E c, d \in callList_[last.ev] : c # d /\ c.handle.priority = d.handle.priority

\* The operations that start with AssertInitialized().
CheckedOperations == {"Hook", "Unhook", "UnhookClass", "Invoke", "CallListSize", "Clear"}

\* C13: a default-constructed event is not initialized and stays so until it
\* is bound (or assigned); on an event that is not initialized each of Hook,
\* Unhook, UnhookClass, Invoke, CallListSize and Clear fails the assertion of
\* AssertInitialized; BindTo, with an object or with nullptr, initializes the
\* event, and on an initialized event none of the six fails that assertion or
\* changes initialized_.
C13_InitializationCheck ==
    (\A e \in Events : ~initialized_[e]) /\
    [][/\ last'.op \in CheckedOperations =>
              /\ (aborted' = "AssertInitialized") <=> ~initialized_[last'.ev]
              /\ initialized_' = initialized_
       /\ last'.op = "BindTo" => initialized_'[last'.ev]
       /\ \A e \in Events :
              (~initialized_[e] /\ initialized_'[e]) =>
                  (last'.op \in {"BindTo", "operator="} /\ last'.ev = e)]_vars

\* Clear failed the assertion on event B, which was never bound, while event
\* A, bound to nothing by BindTo(nullptr), holds a Call that Hook added.
C13_Witness ==
    /\ aborted = "AssertInitialized"
    /\ last.op = "Clear" /\ last.ev = "B"
    /\ ~initialized_["B"] /\ boundTo["B"] = NULL
    /\ initialized_["A"] /\ boundTo["A"] = NULL
    /\ callList_["A"] # {}

\* The lexicographic order over (priority, identifier, function).
LexicographicLess(a, b) ==
    \/ a.priority < b.priority
    \/ /\ a.priority = b.priority
       /\ \/ a.identifier < b.identifier
          \/ a.identifier = b.identifier /\ a.function < b.function

\* How many of the formulas in a set of truth values hold.
Holding(set) == Cardinality({i \in DOMAIN set : set[i]})

\* C14: a < b is the lexicographic strict order over (priority, identifier,
\* function), a == b holds exactly when all three members are equal, and of
\* a < b, a == b and b < a exactly one holds for every two handles.
C14_LexicographicOrder ==
    /\ last.op = "operator<" =>
           /\ last.ret = LexicographicLess(last.handle, last.other)
           /\ Holding(<<HandleLess(last.handle, last.other),
                        HandleEq(last.handle, last.other),
                        HandleLess(last.other, last.handle)>>) = 1
    /\ last.op = "operator==" => last.ret = (last.handle = last.other)

\* Two handles of one callable: the identifier and the function token agree.
SameCallable(g, h) == g.identifier = h.identifier /\ g.function = h.function

\* C15: with KeepOrder false, a Hook of a callable (or of an instance and
\* member function) that is registered at other priorities succeeds and
\* returns a handle unequal to the registered ones, every Invoke then calls the
\* callable once for each of its registrations, and Unhook with one of the
\* handles leaves the registrations at the other priorities.
C15_TwoPriorities ==
    [][~Ordered =>
          LET e == last'.ev
              h == last'.handle
              others == {c \in callList_[e] : SameCallable(c.handle, h)}
          IN  /\ (Step("Hook") /\ others # {} /\ ~Registered(callList_[e], h)) =>
                     /\ aborted' = ""
                     /\ \A c \in others : ~HandleEq(c.handle, h)
                     /\ callList_[e] \subseteq callList_'[e]
                     /\ Registered(callList_'[e], h)
                     /\ \A log \in InvokeLogs(callList_'[e]) :
                            \A c \in {d \in callList_'[e] : SameCallable(d.handle, h)} :
                                Cardinality({i \in 1 .. Len(log) :
                                                /\ log[i].handle = c.handle
                                                /\ log[i].fn = c.fn
                                                /\ log[i].this = c.class_ptr}) = 1
              /\ (Step("Unhook") /\ Registered(callList_[e], h)) =>
                     \A c \in others : c.handle.priority # h.priority => c \in callList_'[e]]_vars

\* An Invoke that called the member function M1 on X twice, for its
\* registrations at priority 1 and at priority 5.
C15_Witness ==
    /\ ~Ordered
    /\ SuccessfulInvoke
    /\ \E i, j \in Positions :
           /\ invoked[i].handle = EventHandle(1, MemberFunction, Xor(X, M1))
           /\ invoked[j].handle = EventHandle(5, MemberFunction, Xor(X, M1))
           /\ invoked[i].this = X /\ invoked[j].this = X
           /\ invoked[i].fn = M1 /\ invoked[j].fn = M1

\* C16: priority_ is a signed 16-bit integer that never decreases; with
\* KeepOrder true every successful Hook advances it by exactly one and gets a
\* priority above that of every Call hooked before, no operation other than
\* Hook and operator= changes it, and with KeepOrder false it never changes.
C16_CounterMonotonic ==
    [][/\ \A e \in Events : priority_'[e] \in (0 - Int16Max - 1) .. Int16Max
       /\ last'.op # "operator=" => \A e \in Events : priority_'[e] >= priority_[e]
       /\ (Ordered /\ Step("Hook") /\ aborted' = "") =>
              /\ priority_'[last'.ev] = priority_[last'.ev] + 1
              /\ last'.handle.priority = priority_[last'.ev]
              /\ \A c \in callList_[last'.ev] : c.handle.priority < last'.handle.priority
       /\ last'.op \notin {"Hook", "HookUnhookRepeated", "operator="} => priority_' = priority_
       /\ ~Ordered => priority_' = priority_]_vars

\* C17: when a Call throws during Invoke the exception leaves Invoke (the
\* process goes on), the Calls before it in the iteration were called once
\* each, no Call after it is called, and the registered Calls are unchanged.
C17_ExceptionLeavesInvoke ==
    [][(last'.op = "Invoke" /\ last'.handle # DefaultHandle) =>
          /\ aborted' = ""
          /\ \E log \in InvokeLogs(callList_[last'.ev]) :
                 /\ Len(invoked') <= Len(log)
                 /\ invoked' = SubSeq(log, 1, Len(invoked'))
          /\ invoked'[Len(invoked')].handle = last'.handle
          /\ callList_' = callList_]_vars

\* The step is an operation that a callback of an Invoke in progress calls and
\* that fails no assertion when it is called with this argument outside Invoke.
CallbackStep ==
    /\ pass # NoPass
    /\ \/ last'.op = "Hook" /\ ~Registered(callList_[last'.ev], last'.handle)
       \/ last'.op = "Unhook" /\ Registered(callList_[last'.ev], last'.handle)
       \/ last'.op = "Clear"

\* The step is a call that Invoke makes, of the Call pass'.running.
CallStep == last'.op = "Invoke" /\ pass' # NoPass /\ aborted' = ""

C19_TokenCollision ==
    [][(/\ Step("Hook")
        /\ last'.handle.identifier = MemberFunction
        /\ \E c \in callList_[last'.ev] :
               HandleEq(c.handle, last'.handle) /\ c.class_ptr # last'.ptr) =>
          (aborted' = "emplace_back" /\ callList_' = callList_)]_vars

\* Hook(Y, M1) failed the assertion while (X, M2) is registered: the two
\* tokens X XOR M2 and Y XOR M1 are equal.
C19_Witness ==
    /\ aborted = "emplace_back"
    /\ last.op = "Hook" /\ last.ptr = Y
    /\ last.handle = EventHandle(1, MemberFunction, Xor(Y, M1))
    /\ X # Y /\ M1 # M2
    /\ callList_[last.ev] =
           {CallMember(X, M2, EventHandle(1, MemberFunction, Xor(X, M2)))}

\* C20: an event that is initialized stays initialized under every operation:
\* BindTo, Hook, Unhook, UnhookClass, Invoke, Clear and operator=, also when
\* the event assigned from was default-constructed and never bound.
C20_StaysInitialized ==
    [][\A e \in Events : initialized_[e] => initialized_'[e]]_vars

\* C21: the function token of the handle of every member-function Call is
\* the XOR of the Call's current owner and its member-function pointer, also
\* after an assignment rebound the owner; so a Hook of an owner and a member
\* function at the priority at which a Call on this owner and member function
\* is registered fails the assertion of emplace_back and registers nothing.
C21_TokenOfOwner ==
    [][/\ \A e \in Events :
              \A c \in callList_'[e] :
                  c.handle.identifier = MemberFunction =>
                      c.handle.function = Xor(c.class_ptr, c.fn)
       /\ (/\ Step("Hook")
           /\ last'.handle.identifier = MemberFunction
           /\ \E c \in Bucket(callList_[last'.ev], last'.handle.priority) :
                  /\ c.handle.identifier = MemberFunction
                  /\ c.class_ptr = last'.ptr
                  /\ Xor(c.fn, last'.ptr) = last'.handle.function) =>
              (aborted' = "emplace_back" /\ callList_' = callList_)]_vars

\* C22: Hook followed at once by Unhook of the handle it returned restores
\* the registry: the Hook adds the Call of the returned handle alone and, with
\* KeepOrder false, leaves priority_; the Unhook succeeds and removes the Call
\* of this handle alone, so the Calls of the event (handles, owners, their
\* number) are those held before the Hook, and changes nothing else.
C22_HookUnhookRoundTrip ==
    [][/\ (Step("Hook") /\ aborted' = "") =>
              /\ Registered(callList_'[last'.ev], last'.handle)
              /\ {c \in callList_'[last'.ev] : c.handle # last'.handle} = callList_[last'.ev]
              /\ Size(callList_'[last'.ev]) = Size(callList_[last'.ev]) + 1
              /\ \A o \in Events \ {last'.ev} : callList_'[o] = callList_[o]
              /\ ~Ordered => priority_' = priority_
       /\ (/\ last.op = "Hook" /\ aborted = ""
           /\ last'.op = "Unhook" /\ last'.ev = last.ev /\ last'.handle = last.handle) =>
              /\ aborted' = ""
              /\ callList_'[last.ev] = {c \in callList_[last.ev] : c.handle # last.handle}
              /\ Size(callList_'[last.ev]) = Size(callList_[last.ev]) - 1
              /\ \A o \in Events \ {last.ev} : callList_'[o] = callList_[o]
              /\ UNCHANGED <<boundTo, priority_, initialized_>>]_vars

\* An Unhook that removed the Call of the most recent Hook of a KeepOrder
\* event, whose priority is the value priority_ had before that Hook, and left
\* the two Calls hooked before it.
C22_Witness ==
    /\ last.op = "Unhook"
    /\ aborted = ""
    /\ Ordered
    /\ last.handle.priority = priority_[last.ev] - 1
    /\ ~Registered(callList_[last.ev], last.handle)
    /\ Size(callList_[last.ev]) = 2
    /\ \A c \in callList_[last.ev] : c.handle.priority < last.handle.priority

\* The callables of a log: what was called, on which object.
Callables(log) == {[fn |-> log[i].fn, this |-> log[i].this] : i \in 1 .. Len(log)}

\* C23: an Invoke whose callbacks leave the registry alone changes neither the
\* Calls of any event, with their handles and owners, nor boundTo, priority_
\* or initialized_, so an Invoke that directly follows an Invoke of the event
\* calls the same callables.
C23_InvokeFrame ==
    [][/\ last'.op = "Invoke" =>
              UNCHANGED <<boundTo, callList_, priority_, initialized_>>
       /\ (/\ last.op = "Invoke" /\ aborted = "" /\ last.handle = DefaultHandle
           /\ last'.op = "Invoke" /\ last'.ev = last.ev
           /\ aborted' = "") =>
              /\ Callables(invoked') = Callables(invoked)
              /\ Len(invoked') = Len(invoked)]_vars

\* An Invoke of a KeepOrder event bound to an object called three Calls and
\* left them registered, with priority_ at 3.
C23_Witness ==
    /\ SuccessfulInvoke
    /\ Ordered
    /\ Len(invoked) = 3
    /\ boundTo[last.ev] # NULL
    /\ priority_[last.ev] = 3
    /\ initialized_[last.ev]
    /\ {invoked[i].handle : i \in Positions} = Handles(callList_[last.ev])

\* C24: with KeepOrder true, a Hook of a callable (or of an instance and
\* member function) of which a registration is present never fails the
\* assertion of emplace_back: it returns a handle unequal to the registered
\* ones, the registrations present stay, CallListSize grows by one, and every
\* Invoke calls the callable once for each registration, twice or more.
C24_OrderedDuplicates ==
    [][Ordered =>
          LET e == last'.ev
              h == last'.handle
              Same(c) == SameCallable(c.handle, h) /\ c.class_ptr = last'.ptr
              present == {c \in callList_[e] : Same(c)}
          IN  (Step("Hook") /\ present # {}) =>
                  /\ aborted' = ""
                  /\ \A c \in present : ~HandleEq(c.handle, h)
                  /\ callList_[e] \subseteq callList_'[e]
                  /\ Size(callList_'[e]) = Size(callList_[e]) + 1
                  /\ \A log \in InvokeLogs(callList_'[e]) :
                         Cardinality({i \in 1 .. Len(log) :
                                         /\ SameCallable(log[i].handle, h)
                                         /\ log[i].this = last'.ptr})
                             = Cardinality(present) + 1]_vars

=============================================================================
